---- MODULE Spec2Model ----
(***************************************************************************)
(* State-machine model of the YouTube thumbnail downloader: the App        *)
(* component of src/App.tsx (React state, the submit / select / download   *)
(* handlers, the five image probes of a submission and the fetch of a      *)
(* download) and extractVideoId of src/utils/youtubeUtils.ts.              *)
(*                                                                         *)
(* JavaScript strings that the code takes apart or puts together are       *)
(* sequences of one-character strings.  A nullable value is a sequence of  *)
(* length 0 (null) or 1 (the value).  A promise is a sequence of length 0  *)
(* (pending) or 1 (the value it resolved with).                            *)
(***************************************************************************)
EXTENDS Integers, Sequences, FiniteSets, TLC

VARIABLES isLoading, error, videoIdForDownload,
          availableThumbnails, selectedThumbnail,
          flights, calls, submitted, downloads, started, saved,
          argument, extracted

vars == <<isLoading, error, videoIdForDownload,
          availableThumbnails, selectedThumbnail,
          flights, calls, submitted, downloads, started, saved,
          argument, extracted>>

\* ------------------------------------------------------------------ bounds
\* Submissions of the form in one behaviour.
MaxSubmits == 2
\* Clicks on the download button in one behaviour.
MaxDownloads == 1

\* ---------------------------------------------------------- JS primitives
Null == <<>>
Some(v) == <<v>>
IsNull(o) == Len(o) = 0
Val(o) == o[1]

Pending == <<>>
Resolved(v) == <<v>>
IsPending(p) == Len(p) = 0

LowerCase == <<"a","b","c","d","e","f","g","h","i","j","k","l","m",
               "n","o","p","q","r","s","t","u","v","w","x","y","z">>
UpperCase == <<"A","B","C","D","E","F","G","H","I","J","K","L","M",
               "N","O","P","Q","R","S","T","U","V","W","X","Y","Z">>
Digits == <<"0","1","2","3","4","5","6","7","8","9">>

Range(s) == {s[i] : i \in 1..Len(s)}

\* String.prototype.toLowerCase, one character.
CharToLowerCase(c) ==
  IF c \in Range(UpperCase)
    THEN LowerCase[CHOOSE i \in 1..Len(UpperCase) : UpperCase[i] = c]
    ELSE c

\* String.prototype.toLowerCase.
toLowerCase(s) == [i \in 1..Len(s) |-> CharToLowerCase(s[i])]

\* s.split('.').pop(): the part of s after its last '.', all of s if it has none.
SplitPop(s) ==
  LET dots == {i \in 1..Len(s) : s[i] = "."}
  IN  IF dots = {} THEN s
      ELSE LET last == CHOOSE i \in dots : \A j \in dots : j <= i
           IN  SubSeq(s, last + 1, Len(s))

\* \s of a JavaScript regular expression, and String.prototype.trim.
WhiteSpace == {" ", "\t", "\n"}

trim(s) ==
  LET inked == {i \in 1..Len(s) : s[i] \notin WhiteSpace}
  IN  IF inked = {} THEN <<>>
      ELSE LET lo == CHOOSE i \in inked : \A j \in inked : i <= j
               hi == CHOOSE i \in inked : \A j \in inked : j <= i
           IN  SubSeq(s, lo, hi)

\* --------------------------------------------- src/utils/youtubeUtils.ts
\* Length of a video identifier: the {11} of the four patterns and the
\* length test of the fallback.
IdLen == 11

\* [a-zA-Z0-9_-]
IdChars == Range(LowerCase) \cup Range(UpperCase) \cup Range(Digits) \cup {"_", "-"}

\* The literal lit stands in s at position p.
LitAt(s, p, lit) ==
  /\ p >= 1
  /\ p + Len(lit) - 1 <= Len(s)
  /\ \A k \in 1..Len(lit) : s[p + k - 1] = lit[k]

\* ([a-zA-Z0-9_-]{11}) matches in s at position p.
IdAt(s, p) ==
  /\ p >= 1
  /\ p + IdLen - 1 <= Len(s)
  /\ \A k \in p..(p + IdLen - 1) : s[k] \in IdChars

\* \S+ or \S* : every character of s[from..to] is a non-space.
NonSpaces(s, from, to) == \A k \in from..to : s[k] \notin WhiteSpace

Min(S) == CHOOSE x \in S : \A y \in S : x <= y
Max(S) == CHOOSE x \in S : \A y \in S : y <= x

\* The alternation after "youtube.com/" of the first pattern, tried at
\* position q: where the captured identifier starts on the path the
\* backtracking matcher takes first, 0 if no path matches.
\*   [^\/\n\s]+\/\S+\/   one path segment, a greedy run of non-spaces, a slash
\*   (?:v|e(?:mbed)?)\/  v/ , embed/ or e/
\*   \S*?[?&]v=          a lazy run of non-spaces, then ?v= or &v=
GeneralTail(s, q) ==
  LET slashes == {k \in q..Len(s) : s[k] = "/"}
      seg == IF slashes = {} THEN 0 ELSE Min(slashes)
      segOk == /\ seg > q
               /\ \A k \in q..(seg - 1) : s[k] \notin WhiteSpace
      greedy == IF segOk
                  THEN {e \in (seg + 2)..Len(s) :
                          /\ s[e] = "/"
                          /\ NonSpaces(s, seg + 1, e - 1)
                          /\ IdAt(s, e + 1)}
                  ELSE {}
      lazy == {e \in q..Len(s) :
                 /\ s[e] \in {"?", "&"}
                 /\ NonSpaces(s, q, e - 1)
                 /\ LitAt(s, e + 1, <<"v", "=">>)
                 /\ IdAt(s, e + 3)}
  IN  IF greedy # {} THEN Max(greedy) + 1
      ELSE IF LitAt(s, q, <<"v", "/">>) /\ IdAt(s, q + 2) THEN q + 2
      ELSE IF LitAt(s, q, <<"e", "m", "b", "e", "d", "/">>) /\ IdAt(s, q + 6) THEN q + 6
      ELSE IF LitAt(s, q, <<"e", "/">>) /\ IdAt(s, q + 2) THEN q + 2
      ELSE IF lazy # {} THEN Min(lazy) + 3
      ELSE 0

\* regexes[0], tried at start position p: where the capture starts, or 0.
GeneralAt(s, p) ==
  LET youtube == <<"y", "o", "u", "t", "u", "b", "e">>
      nocookie == <<"-", "n", "o", "c", "o", "o", "k", "i", "e">>
      com == <<".", "c", "o", "m", "/">>
  IN  IF ~LitAt(s, p, youtube) THEN 0
      ELSE IF LitAt(s, p + 7, nocookie) /\ LitAt(s, p + 16, com)
        THEN GeneralTail(s, p + 21)
      ELSE IF LitAt(s, p + 7, com) THEN GeneralTail(s, p + 12)
      ELSE 0

\* regexes[1], regexes[2], regexes[3]: a literal prefix and the identifier.
PrefixAt(s, p, prefix) ==
  IF LitAt(s, p, prefix) /\ IdAt(s, p + Len(prefix)) THEN p + Len(prefix) ELSE 0

ShortAt(s, p) == PrefixAt(s, p, <<"y", "o", "u", "t", "u", ".", "b", "e", "/">>)

ShortsAt(s, p) ==
  PrefixAt(s, p, <<"y", "o", "u", "t", "u", "b", "e", ".", "c", "o", "m", "/",
                   "s", "h", "o", "r", "t", "s", "/">>)

LiveAt(s, p) ==
  PrefixAt(s, p, <<"y", "o", "u", "t", "u", "b", "e", ".", "c", "o", "m", "/",
                   "l", "i", "v", "e", "/">>)

\* url.match(regex) for the pattern numbered n, then match[1]: the capture
\* of the leftmost match, null if the pattern matches nowhere.
CaptureAt(n, s, p) ==
  CASE n = 1 -> GeneralAt(s, p)
    [] n = 2 -> ShortAt(s, p)
    [] n = 3 -> ShortsAt(s, p)
    [] n = 4 -> LiveAt(s, p)

RegexCount == 4

match1(n, s) ==
  LET hits == {p \in 1..Len(s) : CaptureAt(n, s, p) # 0}
  IN  IF hits = {} THEN Null
      ELSE LET c == CaptureAt(n, s, Min(hits))
           IN  Some(SubSeq(s, c, c + IdLen - 1))

\* extractVideoId without the length test of the fallback.
extractVideoIdAnyLength(url) ==
  LET matching == {n \in 1..RegexCount : ~IsNull(match1(n, url))}
  IN  IF Len(url) = 0 THEN Null
      ELSE IF matching # {} THEN match1(Min(matching), url)
      ELSE IF \A k \in 1..Len(url) : url[k] \in IdChars
        THEN Some(url)
      ELSE Null

extractVideoId(url) ==
  LET matching == {n \in 1..RegexCount : ~IsNull(match1(n, url))}
  IN  IF Len(url) = 0 THEN Null
      ELSE IF matching # {} THEN match1(Min(matching), url)
      ELSE IF Len(url) = IdLen /\ \A k \in 1..Len(url) : url[k] \in IdChars
        THEN Some(url)
      ELSE Null

\* ------------------------------------------------------------ src/App.tsx
THUMBNAIL_QUALITIES == <<
  [key |-> <<"m","a","x","r","e","s","d","e","f","a","u","l","t",".","j","p","g">>,
   label |-> "Max Resolution", dimensions |-> "1280x720",
   shortCode |-> <<"M","a","x">>],
  [key |-> <<"s","d","d","e","f","a","u","l","t",".","j","p","g">>,
   label |-> "Standard Definition", dimensions |-> "640x480",
   shortCode |-> <<"S","D">>],
  [key |-> <<"h","q","d","e","f","a","u","l","t",".","j","p","g">>,
   label |-> "High Quality", dimensions |-> "480x360",
   shortCode |-> <<"H","Q">>],
  [key |-> <<"m","q","d","e","f","a","u","l","t",".","j","p","g">>,
   label |-> "Medium Quality", dimensions |-> "320x180",
   shortCode |-> <<"M","Q">>],
  [key |-> <<"d","e","f","a","u","l","t",".","j","p","g">>,
   label |-> "Default Quality", dimensions |-> "120x90",
   shortCode |-> <<"D","e","f","a","u","l","t">> ] >>

Tiers == 1..Len(THUMBNAIL_QUALITIES)

\* `https://img.youtube.com/vi/${videoId}/${quality.key}`
ProbeUrl(videoId, quality) ==
  <<"h","t","t","p","s",":","/","/","i","m","g",".","y","o","u","t","u","b","e",
    ".","c","o","m","/","v","i","/">> \o videoId \o <<"/">> \o quality.key

\* The AvailableThumbnail an image's onload resolves its promise with.
Thumbnail(videoId, quality) ==
  [url |-> ProbeUrl(videoId, quality),
   key |-> quality.key,
   label |-> quality.label,
   dimensions |-> quality.dimensions,
   shortCode |-> quality.shortCode]

\* foundThumbnails with the survivors in reverse order.
foundThumbnailsReversed(results) ==
  LET kept == SelectSeq(results, LAMBDA r : ~IsNull(Val(r)))
  IN  [i \in 1..Len(kept) |-> Val(Val(kept[Len(kept) + 1 - i]))]

\* results.filter(Boolean): the resolved values that are not null, in order.
foundThumbnails(results) ==
  LET kept == SelectSeq(results, LAMBDA r : ~IsNull(Val(r)))
  IN  [i \in 1..Len(kept) |-> Val(Val(kept[i]))]

\* The messages of setError.
ErrEmptyInput == "Please enter a YouTube video URL."
ErrInvalidUrl == "Invalid YouTube URL or Video ID not found. Please check the link and try again."
ErrNoThumbnails == "No thumbnails found for this video. It might be private, deleted, or an invalid link."
ErrNoSelection == "No thumbnail selected to download."
ErrDownload == "Failed to download image."

\* DownloadName without the toLowerCase of the short code.
DownloadNameKeepsCase(thumbnail, videoId) ==
  LET popped == SplitPop(thumbnail.key)
      extension == IF Len(popped) = 0 THEN <<"j","p","g">> ELSE popped
  IN  <<"y","o","u","t","u","b","e","_","t","h","u","m","b","n","a","i","l","_">>
        \o videoId \o <<"_">> \o thumbnail.shortCode \o <<".">> \o extension

\* `youtube_thumbnail_${videoIdForDownload}_${shortCode.toLowerCase()}.${extension}`
DownloadName(thumbnail, videoId) ==
  LET popped == SplitPop(thumbnail.key)
      extension == IF Len(popped) = 0 THEN <<"j","p","g">> ELSE popped
  IN  <<"y","o","u","t","u","b","e","_","t","h","u","m","b","n","a","i","l","_">>
        \o videoId \o <<"_">> \o toLowerCase(thumbnail.shortCode)
        \o <<".">> \o extension

\* The texts the user submits: empty, blanks only, no link, a bare
\* identifier, the identifier with a blank before it, and three links.
VideoA == <<"d","Q","w","4","w","9","W","g","X","c","Q">>

InputValues ==
  { <<>>,
    <<" ", " ">>,
    <<"n","o","t"," ","a"," ","l","i","n","k">>,
    VideoA,
    <<" ">> \o VideoA,
    <<"h","t","t","p","s",":","/","/","y","o","u","t","u",".","b","e","/">> \o VideoA,
    <<"y","o","u","t","u","b","e",".","c","o","m","/","w","a","t","c","h","?","v","=">>
      \o VideoA,
    <<"y","o","u","t","u","b","e",".","c","o","m","/","e","m","b","e","d","/">>
      \o VideoA \o <<" ">> }

\* A second video, and the texts typed when two different videos are asked for
\* one after the other.
VideoB == <<"j","N","Q","X","A","C","9","I","V","R","w">>

InputValuesTwo ==
  { <<>>,
    VideoA,
    <<"y","o","u","t","u",".","b","e","/">> \o VideoB }

\* ------------------------------------------------------------------ state
\* flights: the calls of fetchAllAvailableThumbnails that wait in
\*   Promise.all, oldest first: the number of the call, its videoId and its
\*   five promises.
\* calls: the calls of fetchAllAvailableThumbnails so far.
\* downloads: the calls of handleDownload that wait for fetch, with the
\*   selectedThumbnail and videoIdForDownload their closure holds.
\* saved: the download attribute of the link clicked last (the file saved).
\* submitted, started: the submissions and the download clicks so far.
\* argument, extracted: the argument of a call of extractVideoId on its own and
\*   what the call returned (null before the call).
Init ==
  /\ isLoading = FALSE
  /\ error = Null
  /\ videoIdForDownload = Null
  /\ availableThumbnails = <<>>
  /\ selectedThumbnail = Null
  /\ flights = <<>>
  /\ calls = 0
  /\ submitted = 0
  /\ downloads = <<>>
  /\ started = 0
  /\ saved = Null
  /\ argument = <<>>
  /\ extracted = Null

\* fetchAllAvailableThumbnails without its setIsLoading(true).
fetchAllAvailableThumbnailsNoLoading(videoId) ==
  /\ UNCHANGED isLoading
  /\ error' = Null
  /\ availableThumbnails' = <<>>
  /\ selectedThumbnail' = Null
  /\ videoIdForDownload' = Some(videoId)
  /\ flights' = Append(flights,
                  [call |-> calls + 1,
                   videoId |-> videoId,
                   promises |-> [i \in Tiers |-> Pending]])
  /\ calls' = calls + 1

\* fetchAllAvailableThumbnails(videoId) up to its await: the state it sets
\* and the five images it starts loading.
fetchAllAvailableThumbnails(videoId) ==
  /\ isLoading' = TRUE
  /\ error' = Null
  /\ availableThumbnails' = <<>>
  /\ selectedThumbnail' = Null
  /\ videoIdForDownload' = Some(videoId)
  /\ flights' = Append(flights,
                  [call |-> calls + 1,
                   videoId |-> videoId,
                   promises |-> [i \in Tiers |-> Pending]])
  /\ calls' = calls + 1

\* extractVideoId of every text of InputValues.
VideoIdOf ==
  [value \in InputValues \cup InputValuesTwo |-> extractVideoId(value)]

\* handleSubmit with setIsLoading(true) ahead of the validation of the text.
handleSubmitLoadsFirst(inputValue) ==
  LET videoId == VideoIdOf[inputValue]
  IN  /\ submitted < MaxSubmits
      /\ submitted' = submitted + 1
      /\ UNCHANGED <<downloads, started, saved, argument, extracted>>
      /\ IF Len(trim(inputValue)) = 0 \/ IsNull(videoId)
           THEN /\ error' = Some(IF Len(trim(inputValue)) = 0
                                   THEN ErrEmptyInput ELSE ErrInvalidUrl)
                /\ availableThumbnails' = <<>>
                /\ selectedThumbnail' = Null
                /\ videoIdForDownload' = Null
                /\ isLoading' = TRUE
                /\ UNCHANGED <<flights, calls>>
           ELSE fetchAllAvailableThumbnails(Val(videoId))

\* handleSubmit: the form's onSubmit, with inputValue the text that onChange
\* has stored by the time the form is submitted.  The handler does not read
\* isLoading: only the rendered submit button is disabled while loading, so a
\* submit event that reaches the form while probes are in flight runs it.
handleSubmit(inputValue) ==
  LET videoId == VideoIdOf[inputValue]
  IN  /\ submitted < MaxSubmits
      /\ submitted' = submitted + 1
      /\ UNCHANGED <<downloads, started, saved, argument, extracted>>
      /\ IF Len(trim(inputValue)) = 0
           THEN /\ error' = Some(ErrEmptyInput)
                /\ availableThumbnails' = <<>>
                /\ selectedThumbnail' = Null
                /\ videoIdForDownload' = Null
                /\ UNCHANGED <<isLoading, flights, calls>>
         ELSE IF IsNull(videoId)
           THEN /\ error' = Some(ErrInvalidUrl)
                /\ availableThumbnails' = <<>>
                /\ selectedThumbnail' = Null
                /\ videoIdForDownload' = Null
                /\ UNCHANGED <<isLoading, flights, calls>>
         ELSE fetchAllAvailableThumbnails(Val(videoId))

\* afterAwait selecting the last survivor instead of the first.
afterAwaitSelectsLast(results) ==
  LET found == foundThumbnails(results)
  IN  /\ IF Len(found) > 0
           THEN /\ availableThumbnails' = found
                /\ selectedThumbnail' = Some(found[Len(found)])
                /\ UNCHANGED <<error, videoIdForDownload>>
           ELSE /\ error' = Some(ErrNoThumbnails)
                /\ videoIdForDownload' = Null
                /\ UNCHANGED <<availableThumbnails, selectedThumbnail>>
      /\ isLoading' = FALSE

\* afterAwait without its setAvailableThumbnails(foundThumbnails).
afterAwaitKeepsList(results) ==
  LET found == foundThumbnails(results)
  IN  /\ IF Len(found) > 0
           THEN /\ selectedThumbnail' = Some(found[1])
                /\ UNCHANGED <<availableThumbnails, error, videoIdForDownload>>
           ELSE /\ error' = Some(ErrNoThumbnails)
                /\ videoIdForDownload' = Null
                /\ UNCHANGED <<availableThumbnails, selectedThumbnail>>
      /\ isLoading' = FALSE

\* The rest of fetchAllAvailableThumbnails, run when Promise.all resolves
\* with results: the try block and the finally block.  No promise of the
\* five rejects, so the catch block never runs.
afterAwait(results) ==
  LET found == foundThumbnails(results)
  IN  /\ IF Len(found) > 0
           THEN /\ availableThumbnails' = found
                /\ selectedThumbnail' = Some(found[1])
                /\ UNCHANGED <<error, videoIdForDownload>>
           ELSE /\ error' = Some(ErrNoThumbnails)
                /\ videoIdForDownload' = Null
                /\ UNCHANGED <<availableThumbnails, selectedThumbnail>>
      /\ isLoading' = FALSE

\* Without the flight numbered f.
Without(seq, f) == SubSeq(seq, 1, f - 1) \o SubSeq(seq, f + 1, Len(seq))

\* An image of flight f resolves its promise with value.  When it was the
\* last of the five, Promise.all resolves and the awaiting call resumes
\* before any other event is handled.
settle(f, i, value) ==
  LET promises == [flights[f].promises EXCEPT ![i] = Resolved(value)]
  IN  /\ IsPending(flights[f].promises[i])
      /\ IF \E j \in Tiers : IsPending(promises[j])
           THEN /\ flights' = [flights EXCEPT ![f].promises = promises]
                /\ UNCHANGED <<isLoading, error, videoIdForDownload,
                               availableThumbnails, selectedThumbnail>>
           ELSE /\ flights' = Without(flights, f)
                /\ afterAwait(promises)
      /\ UNCHANGED <<calls, submitted, downloads, started, saved,
                   argument, extracted>>

\* img.onload of the image of tier i of flight f.
onload(f, i) ==
  settle(f, i, Some(Thumbnail(flights[f].videoId, THUMBNAIL_QUALITIES[i])))

\* img.onerror of the image of tier i of flight f.
onerror(f, i) == settle(f, i, Null)

\* handleThumbnailSelect that also clears the error message.
handleThumbnailSelectClearsError(thumbnail) ==
  /\ selectedThumbnail' = Some(thumbnail)
  /\ error' = Null
  /\ UNCHANGED <<isLoading, videoIdForDownload, availableThumbnails, flights,
                 calls, submitted, downloads, started, saved, argument,
                 extracted>>

\* handleThumbnailSelect: the click on a button of the grid.
handleThumbnailSelect(thumbnail) ==
  /\ selectedThumbnail' = Some(thumbnail)
  /\ UNCHANGED <<isLoading, error, videoIdForDownload,
                 availableThumbnails, flights, calls, submitted, downloads, started, saved,
                 argument, extracted>>

\* handleDownload up to its await of fetch.
handleDownload ==
  /\ started < MaxDownloads
  /\ started' = started + 1
  /\ IF IsNull(selectedThumbnail) \/ IsNull(videoIdForDownload)
       THEN /\ error' = Some(ErrNoSelection)
            /\ UNCHANGED downloads
       ELSE /\ downloads' = Append(downloads,
                              [selectedThumbnail |-> Val(selectedThumbnail),
                               videoIdForDownload |-> Val(videoIdForDownload)])
            /\ UNCHANGED error
  /\ UNCHANGED <<isLoading, videoIdForDownload, availableThumbnails,
                 selectedThumbnail, flights, calls, submitted, saved,
                 argument, extracted>>

\* The try block of download d completes: the response is ok, the blob is
\* read, the link is clicked.
downloadSaved(d) ==
  /\ saved' = Some(DownloadName(downloads[d].selectedThumbnail,
                                downloads[d].videoIdForDownload))
  /\ error' = Null
  /\ downloads' = Without(downloads, d)
  /\ UNCHANGED <<isLoading, videoIdForDownload, availableThumbnails,
                 selectedThumbnail, flights, calls, submitted, started,
                 argument, extracted>>

\* downloadFailed that also drops the selection.
downloadFailedDeselects(d) ==
  /\ error' = Some(ErrDownload)
  /\ selectedThumbnail' = Null
  /\ downloads' = Without(downloads, d)
  /\ UNCHANGED <<isLoading, videoIdForDownload, availableThumbnails,
                 flights, calls, submitted, started, saved,
                 argument, extracted>>

\* The catch block of download d: fetch rejected, the response was not ok,
\* or reading the blob failed.
downloadFailed(d) ==
  /\ error' = Some(ErrDownload)
  /\ downloads' = Without(downloads, d)
  /\ UNCHANGED <<isLoading, videoIdForDownload, availableThumbnails,
                 selectedThumbnail, flights, calls, submitted, started, saved,
                 argument, extracted>>

\* The render conditions of the preview with its download button and of
\* the grid of selectable candidates.
previewShown == ~IsNull(selectedThumbnail) /\ ~isLoading /\ IsNull(error)

gridShown == Len(availableThumbnails) > 0 /\ ~isLoading /\ IsNull(error)

Next ==
  \/ \E value \in InputValues : handleSubmit(value)
  \/ \E f \in 1..Len(flights), i \in Tiers : onload(f, i)
  \/ \E f \in 1..Len(flights), i \in Tiers : onerror(f, i)
  \/ \E k \in 1..Len(availableThumbnails) :
       handleThumbnailSelect(availableThumbnails[k])
  \/ handleDownload
  \/ \E d \in 1..Len(downloads) : downloadSaved(d)
  \/ \E d \in 1..Len(downloads) : downloadFailed(d)

Spec == Init /\ [][Next]_vars

\* The component with links to two different videos submitted, and no
\* download.
NextTwo ==
  \/ \E value \in InputValuesTwo : handleSubmit(value)
  \/ \E f \in 1..Len(flights), i \in Tiers : onload(f, i)
  \/ \E f \in 1..Len(flights), i \in Tiers : onerror(f, i)
  \/ \E k \in 1..Len(availableThumbnails) :
       handleThumbnailSelect(availableThumbnails[k])

SpecTwo == Init /\ [][NextTwo]_vars

\* ------------------------------------------- extractVideoId on its own
\* The arguments of extractVideoId: a start, a middle and an end each.
ExtractStarts ==
  { <<>>,
    <<" ">>,
    <<"x">>,
    <<"y","o","u","t","u",".","b","e","/">>,
    <<"h","t","t","p","s",":","/","/","w","w","w",".","y","o","u","t","u","b","e",
      ".","c","o","m","/","w","a","t","c","h","?","v","=">>,
    <<"y","o","u","t","u","b","e",".","c","o","m","/","w","a","t","c","h","?",
      "t","=","1","&","v","=">>,
    <<"y","o","u","t","u","b","e",".","c","o","m","/","e","m","b","e","d","/">>,
    <<"y","o","u","t","u","b","e","-","n","o","c","o","o","k","i","e",
      ".","c","o","m","/","v","/">>,
    <<"y","o","u","t","u","b","e",".","c","o","m","/","s","h","o","r","t","s","/">>,
    <<"y","o","u","t","u","b","e",".","c","o","m","/","l","i","v","e","/">>,
    <<"y","o","u","t","u","b","e",".","c","o","m","/","u","/","a","/">> }

ExtractMiddles ==
  { <<>>,
    VideoA,
    SubSeq(VideoA, 1, Len(VideoA) - 1),
    VideoA \o <<"Z">>,
    <<"d","Q","w","4","w","9","!","g","X","c","Q">> }

ExtractEnds ==
  { <<>>,
    <<" ">>,
    <<"?","s","i","=","a","b">>,
    <<"/">> }

ExtractInputs ==
  {start \o middle \o end :
     start \in ExtractStarts, middle \in ExtractMiddles, end \in ExtractEnds}

InitExtract ==
  /\ isLoading = FALSE
  /\ error = Null
  /\ videoIdForDownload = Null
  /\ availableThumbnails = <<>>
  /\ selectedThumbnail = Null
  /\ flights = <<>>
  /\ calls = 0
  /\ submitted = 0
  /\ downloads = <<>>
  /\ started = 0
  /\ saved = Null
  /\ argument \in ExtractInputs
  /\ extracted = Null

\* One call of extractVideoId, outside the component.
callExtractVideoId ==
  /\ IsNull(extracted)
  /\ extracted' = Some(extractVideoId(argument))
  /\ UNCHANGED <<isLoading, error, videoIdForDownload, availableThumbnails,
                 selectedThumbnail, flights, calls, submitted, downloads,
                 started, saved, argument>>

NextExtract == callExtractVideoId

SpecExtract == InitExtract /\ [][NextExtract]_vars

\* ----------------------------------------------------------------- claims
\* The file names of the five tiers in their fixed order, and the lower-cased
\* short codes, as the specification lists them.
TierKeys == <<
  <<"m","a","x","r","e","s","d","e","f","a","u","l","t",".","j","p","g">>,
  <<"s","d","d","e","f","a","u","l","t",".","j","p","g">>,
  <<"h","q","d","e","f","a","u","l","t",".","j","p","g">>,
  <<"m","q","d","e","f","a","u","l","t",".","j","p","g">>,
  <<"d","e","f","a","u","l","t",".","j","p","g">> >>

\* The tier a candidate belongs to, 0 for an unknown file name.
TierOf(thumbnail) ==
  IF \E t \in 1..Len(TierKeys) : TierKeys[t] = thumbnail.key
    THEN CHOOSE t \in 1..Len(TierKeys) : TierKeys[t] = thumbnail.key
    ELSE 0

\* Probe i is the only one of flight f that has not settled.
LastProbe(f, i) ==
  /\ IsPending(flights[f].promises[i])
  /\ \A j \in Tiers \ {i} : ~IsPending(flights[f].promises[j])

\* The tiers of flight f, other than i, whose probe succeeded.
Succeeded(f, i) ==
  {j \in Tiers \ {i} : /\ ~IsPending(flights[f].promises[j])
                       /\ ~IsNull(Val(flights[f].promises[j]))}

\* In the next state the candidate list is exactly the tiers of S, in tier
\* order, each with the URL of video videoId, and the first one is selected.
ShowsExactly(S, videoId) ==
  /\ Len(availableThumbnails') = Cardinality(S)
  /\ {TierOf(availableThumbnails'[k]) : k \in 1..Len(availableThumbnails')} = S
  /\ \A k \in 1..(Len(availableThumbnails') - 1) :
       TierOf(availableThumbnails'[k]) < TierOf(availableThumbnails'[k + 1])
  /\ \A k \in 1..Len(availableThumbnails') :
       availableThumbnails'[k].url =
         <<"h","t","t","p","s",":","/","/","i","m","g",".","y","o","u","t","u","b","e",
           ".","c","o","m","/","v","i","/">> \o videoId \o <<"/">>
           \o availableThumbnails'[k].key
  /\ selectedThumbnail' = Some(availableThumbnails'[1])

\* C1: when the last of the five probes of a submission settles and at least
\* one probe succeeded, the candidate list becomes exactly the tiers whose
\* probe succeeded, in the fixed tier order, and the first of them is
\* selected; with five successes that is five entries and maxresdefault.
C1_SurvivorsInTierOrder ==
  [][\A f \in 1..Len(flights), i \in Tiers :
       LastProbe(f, i) =>
         /\ onload(f, i) =>
              ShowsExactly(Succeeded(f, i) \cup {i}, flights[f].videoId)
         /\ (onerror(f, i) /\ Succeeded(f, i) # {}) =>
              ShowsExactly(Succeeded(f, i), flights[f].videoId)]_vars

C1_Witness ==
  /\ Len(availableThumbnails) = 5
  /\ ~isLoading
  /\ flights = <<>>
  /\ selectedThumbnail = Some(availableThumbnails[1])
  /\ availableThumbnails[1].key = TierKeys[1]

C4_FailedDownloadKeepsResults ==
  [][/\ (handleDownload /\ downloads' # downloads) =>
          UNCHANGED <<availableThumbnails, selectedThumbnail, videoIdForDownload,
                      error, isLoading, flights, saved>>
     /\ \A d \in 1..Len(downloads) :
          downloadFailed(d) =>
            /\ ~IsNull(error')
            /\ UNCHANGED <<availableThumbnails, selectedThumbnail,
                           videoIdForDownload, isLoading, flights, saved>>]_vars

C4_Witness ==
  /\ error = Some(ErrDownload)
  /\ downloads = <<>>
  /\ Len(availableThumbnails) > 0
  /\ ~IsNull(selectedThumbnail)
  /\ ~IsNull(videoIdForDownload)

\* C5: selecting a candidate of the candidate list changes only the
\* selection: the candidate list, the loading flag, the download identifier,
\* the error message and the probes in flight stay as they are.
C5_SelectChangesOnlySelection ==
  [][\A k \in 1..Len(availableThumbnails) :
       handleThumbnailSelect(availableThumbnails[k]) =>
         /\ selectedThumbnail' = Some(availableThumbnails[k])
         /\ UNCHANGED <<availableThumbnails, isLoading, videoIdForDownload,
                        error, flights>>]_vars

C5_Witness ==
  /\ Len(availableThumbnails) >= 2
  /\ ~IsNull(selectedThumbnail)
  /\ selectedThumbnail # Some(availableThumbnails[1])

\* The text is empty or consists of white space only.
Blank(value) == \A k \in 1..Len(value) : value[k] \in WhiteSpace

\* C6: a submission of an empty or blank text, or of a text no identifier
\* can be extracted from, starts no probe and does not touch the loading
\* flag; it sets an error message and leaves the candidate list and the
\* selection empty.
C6_InvalidInputRejected ==
  [][\A value \in InputValues :
       ((Blank(value) \/ IsNull(VideoIdOf[value])) /\ handleSubmit(value)) =>
         /\ flights' = flights
         /\ isLoading' = isLoading
         /\ ~IsNull(error')
         /\ availableThumbnails' = <<>>
         /\ IsNull(selectedThumbnail')]_vars

C6_Witness ==
  /\ error = Some(ErrEmptyInput)
  /\ flights = <<>>
  /\ ~isLoading
  /\ availableThumbnails = <<>>
  /\ IsNull(selectedThumbnail)

\* C7: right after any submission the candidate list is empty and nothing
\* is selected; if an identifier was extracted the loading flag is set and
\* five pending probes of a new flight were issued, otherwise an error is
\* set and the submission neither sets the loading flag nor issues a probe.
C7_SubmitResets ==
  [][\A value \in InputValues :
       handleSubmit(value) =>
         /\ availableThumbnails' = <<>>
         /\ IsNull(selectedThumbnail')
         /\ IF ~Blank(value) /\ ~IsNull(VideoIdOf[value])
              THEN /\ isLoading'
                   /\ IsNull(error')
                   /\ Len(flights') = Len(flights) + 1
                   /\ SubSeq(flights', 1, Len(flights)) = flights
                   /\ DOMAIN flights'[Len(flights')].promises = 1..5
                   /\ \A i \in 1..5 : IsPending(flights'[Len(flights')].promises[i])
              ELSE /\ ~IsNull(error')
                   /\ isLoading' = isLoading
                   /\ flights' = flights]_vars

\* A submission made from Ready: a file was saved from an earlier result,
\* and the probes of the new submission are all pending.
C7_Witness ==
  /\ ~IsNull(saved)
  /\ isLoading
  /\ Len(flights) = 1
  /\ \A i \in Tiers : IsPending(flights[1].promises[i])
  /\ availableThumbnails = <<>>
  /\ IsNull(selectedThumbnail)

\* C8: the candidate list is always a duplicate-free subsequence of the five
\* known tiers in their fixed order.
C8_ListIsTierSubsequence ==
  /\ \A k \in 1..Len(availableThumbnails) : TierOf(availableThumbnails[k]) \in 1..5
  /\ \A k \in 1..(Len(availableThumbnails) - 1) :
       TierOf(availableThumbnails[k]) < TierOf(availableThumbnails[k + 1])

C8_Witness ==
  /\ Len(availableThumbnails) = 2
  /\ TierOf(availableThumbnails[1]) = 2
  /\ TierOf(availableThumbnails[2]) = 5

\* C9: after probing completes with at least one surviving candidate, and
\* after a download completes successfully, no error message is shown.
C9_ErrorClearsOnSuccess ==
  [][(\/ \E f \in 1..Len(flights), i \in Tiers :
            /\ LastProbe(f, i)
            /\ \/ onload(f, i)
               \/ onerror(f, i) /\ Succeeded(f, i) # {}
      \/ \E d \in 1..Len(downloads) : downloadSaved(d))
       => IsNull(error')]_vars

\* The lower-cased short codes of the five tiers.
TierShortLower == <<
  <<"m","a","x">>, <<"s","d">>, <<"h","q">>, <<"m","q">>,
  <<"d","e","f","a","u","l","t">> >>

\* The file name prefix_{identifier}_{shortcode-lowercased}.jpg of download d.
NamedWith(prefix, d) ==
  \E t \in 1..5 :
    /\ downloads[d].selectedThumbnail.key = TierKeys[t]
    /\ saved' = Some(prefix \o downloads[d].videoIdForDownload \o <<"_">>
                       \o TierShortLower[t] \o <<".","j","p","g">>)

\* C10 as stated: a successful download saves a file named
\* thumbnail_{identifier}_{shortcode-lowercased}.jpg.
C10_NamedThumbnail ==
  [][\A d \in 1..Len(downloads) :
       downloadSaved(d) =>
         NamedWith(<<"t","h","u","m","b","n","a","i","l","_">>, d)]_vars

\* C10 as amended: a successful download saves a file named
\* youtube_thumbnail_{identifier}_{shortcode-lowercased}.jpg, with the
\* download identifier stored when the download was started.
C10_NamedYoutubeThumbnail ==
  [][\A d \in 1..Len(downloads) :
       downloadSaved(d) =>
         NamedWith(<<"y","o","u","t","u","b","e","_",
                     "t","h","u","m","b","n","a","i","l","_">>, d)]_vars

C10_Witness ==
  /\ ~IsNull(saved)
  /\ downloads = <<>>
  /\ IsNull(error)

\* No pattern of the four matches the text.
NoPattern(text) == \A n \in 1..4 : IsNull(match1(n, text))

\* The text is exactly 11 characters of A-Z, a-z, 0-9, _ and -.
LiteralId(text) ==
  /\ Len(text) = 11
  /\ \A k \in 1..Len(text) :
       text[k] \in {"A","B","C","D","E","F","G","H","I","J","K","L","M",
                    "N","O","P","Q","R","S","T","U","V","W","X","Y","Z",
                    "a","b","c","d","e","f","g","h","i","j","k","l","m",
                    "n","o","p","q","r","s","t","u","v","w","x","y","z",
                    "0","1","2","3","4","5","6","7","8","9","_","-"}

\* C11: when no pattern matches, extractVideoId returns the trimmed text if
\* the trimmed text is exactly 11 characters of the alphabet, and not-found
\* otherwise.
C11_TrimmedLiteralFallback ==
  (~IsNull(extracted) /\ NoPattern(argument)) =>
     Val(extracted) = IF LiteralId(trim(argument))
                        THEN Some(trim(argument)) ELSE Null

\* C12: extractVideoId returns not-found or 11 characters of the alphabet,
\* and it returns not-found for a text that no pattern matches and whose
\* length is not 11.
C12_ElevenCharsOrNotFound ==
  ~IsNull(extracted) =>
     /\ IsNull(Val(extracted)) \/ LiteralId(Val(Val(extracted)))
     /\ (NoPattern(argument) /\ Len(argument) # 11) => IsNull(Val(extracted))

\* An identifier was taken out of a longer text.
C12_Witness ==
  /\ ~IsNull(extracted)
  /\ Val(extracted) = Some(VideoA)
  /\ Len(argument) > 11

\* The probes of the most recent call of fetchAllAvailableThumbnails have
\* not all settled.
NewestPending == \E f \in 1..Len(flights) : flights[f].call = calls

Ready ==
  /\ Len(availableThumbnails) > 0
  /\ ~IsNull(selectedThumbnail)
  /\ IsNull(error)

EmptyError ==
  /\ availableThumbnails = <<>>
  /\ IsNull(selectedThumbnail)
  /\ ~IsNull(error)

\* C14: when the loading flag becomes false the system is in Ready or in
\* Empty-Error.
C14_ProbingEndsReadyOrEmptyError ==
  [][(isLoading /\ ~isLoading') => (Ready' \/ EmptyError')]_vars

\* C15: after a download fails in Ready, the candidate list is still
\* presented and the select and download actions are still offered.
C15_FailedDownloadStaysReady ==
  [][\A d \in 1..Len(downloads) :
       (Ready /\ ~isLoading /\ downloadFailed(d)) =>
         (gridShown' /\ previewShown')]_vars

\* C16: a selection, when there is one, is an element of the candidate
\* list, and there is none when the candidate list is empty.
C16_SelectionIsCandidate ==
  /\ ~IsNull(selectedThumbnail) =>
       \E k \in 1..Len(availableThumbnails) :
         availableThumbnails[k] = Val(selectedThumbnail)
  /\ availableThumbnails = <<>> => IsNull(selectedThumbnail)

C16_Witness ==
  /\ Len(availableThumbnails) = 3
  /\ selectedThumbnail = Some(availableThumbnails[3])

BuiltFrom(thumbnail, videoId) ==
  \E i \in Tiers : thumbnail.url = ProbeUrl(videoId, THUMBNAIL_QUALITIES[i])

====
